---- MODULE Spec2Model ----
(***************************************************************************)
(* Model of Discord_Bot/bot/bot.py: the Crafty API client (login and       *)
(* _request with its single re-login), the server-map refresh, the channel *)
(* binding setup, the slash commands and the periodic update_task.         *)
(*                                                                         *)
(* The program is one asyncio event loop: a coroutine runs without         *)
(* interruption from one network await to the next.  Every action below is *)
(* therefore the code that runs from the arrival of one awaited response   *)
(* up to the next await; two tasks interleave only at these points: the    *)
(* main task (on_ready followed by the update_task loop) and one slash     *)
(* command invocation at a time.                                           *)
(***************************************************************************)
EXTENDS Integers, Sequences, FiniteSets, TLC

VARIABLES
    now,                  \* time.time()
    bearer_token,         \* CraftyClient.bearer_token
    username,             \* CraftyClient.username (with its password)
    token,                \* CraftyClient._token
    closed,               \* history: close() was called and no login ended well since
    cfg,                  \* _cfg
    SERVERS_CFG,          \* SERVERS_CFG (dict, in insertion order)
    update_interval,      \* update_interval (module global)
    server_map,           \* server_map
    rf,                   \* history: the refresh_server_map call that ended last
    channel_map,          \* channel_map
    channel_order,        \* the keys of channel_map in insertion order
    channel_last_update,  \* channel_last_update
    guilds,               \* bot.guilds
    channels,             \* the voice channels of the guilds (Discord side)
    categories,           \* the categories of the guilds (Discord side)
    ens,                  \* the locals of each task's ensure_channels_for_guild
    pc,                   \* where each task is suspended
    call,                 \* the _request / login in flight of each task
    last,                 \* history: the logical request that ended last
    login_http,           \* history: a POST /api/v2/auth/login has been sent
    loop,                 \* the tasks.loop around update_task
    cyc,                  \* history: what the current update_task run did
    ren,                  \* history: rename issues per channel
    cmd                   \* the slash command being served, and its reply

vars == <<now, bearer_token, username, token, closed, cfg, SERVERS_CFG, update_interval,
          server_map, rf, channel_map, channel_order, channel_last_update, guilds,
          channels, categories, ens, pc, call, last, login_http, loop, cyc, ren, cmd>>

-----------------------------------------------------------------------------
(* Bounds of the model *)

\* the number of times time.time() is seen to advance (by 5 each time)
MaxTicks == 4

-----------------------------------------------------------------------------
(* Python values *)

None == "<None>"

\* a YAML / JSON scalar: an int or a str
PyInt(n) == [t |-> "int", i |-> n, s |-> ""]
PyStr(z) == [t |-> "str", i |-> 0, s |-> z]

\* str(x)
Str(v) == IF v.t = "int" THEN ToString(v.i) ELSE v.s

\* d.get(k, default) for a dict modelled as a function
Get(d, k, default) == IF k \in DOMAIN d THEN d[k] ELSE default

\* d with d[k] = v
Put(d, k, v) == [x \in DOMAIN d \cup {k} |-> IF x = k THEN v ELSE d[x]]

EmptyDict == [x \in {} |-> None]

\* bool(x) of a JSON value that is true, false or absent
Bool(x) == x = "true"

RECURSIVE SeqToSet(_)
SeqToSet(s) == IF s = <<>> THEN {} ELSE {Head(s)} \cup SeqToSet(Tail(s))

-----------------------------------------------------------------------------
(* Text: str.lower, str.capitalize, the `in` substring test *)

LowerLetters == "abcdefghijklmnopqrstuvwxyz"
UpperLetters == "ABCDEFGHIJKLMNOPQRSTUVWXYZ"

\* position of the one-character string c in alphabet, 0 when it is not in it
IndexIn(c, alphabet) ==
    IF \E i \in 1..Len(alphabet) : SubSeq(alphabet, i, i) = c
    THEN CHOOSE i \in 1..Len(alphabet) : SubSeq(alphabet, i, i) = c
    ELSE 0

LowerChar(c) ==
    LET i == IndexIn(c, UpperLetters)
    IN  IF i = 0 THEN c ELSE SubSeq(LowerLetters, i, i)

UpperChar(c) ==
    LET i == IndexIn(c, LowerLetters)
    IN  IF i = 0 THEN c ELSE SubSeq(UpperLetters, i, i)

\* s.lower()
RECURSIVE Lower(_)
Lower(s) == IF Len(s) = 0 THEN "" ELSE LowerChar(Head(s)) \o Lower(Tail(s))

\* s.capitalize(): first character upper-cased, the rest lower-cased
Capitalize(s) == IF Len(s) = 0 THEN "" ELSE UpperChar(Head(s)) \o Lower(Tail(s))

\* needle in hay
Contains(hay, needle) ==
    \E i \in 1..(Len(hay) - Len(needle) + 1) :
        SubSeq(hay, i, i + Len(needle) - 1) = needle

\* The three channel names the program writes.  The emoji of the source are
\* written (~), (+) and (-): they are not letters, so lower() and the
\* substring test treat them as the originals.
PlaceholderName(friendly) == "(~) " \o Capitalize(friendly) \o "..."
OnlineName(friendly) == "(+) " \o Capitalize(friendly) \o ": Online"
OfflineName(friendly) == "(-) " \o Capitalize(friendly) \o ": Offline"

-----------------------------------------------------------------------------
(* Configuration *)

CHANNEL_COOLDOWN == 15

\* The config.yaml documents the process may read.  has: the top-level keys
\* the document sets; crafty credentials are chosen apart (Init).
FileA ==
    [has |-> {"update_interval", "allowed_user_ids", "allowed_role_names", "servers"},
     update_interval |-> 5,
     category_name |-> "",
     allowed_user_ids |-> <<PyInt(1001)>>,
     allowed_role_names |-> <<"Admin">>,
     servers |-> << <<"survival", "SMP">>, <<"creative", "Build">> >>,
     crafty |-> [username |-> "alice"]]

FileB ==
    [has |-> {"update_interval", "allowed_user_ids", "servers"},
     update_interval |-> 10,
     category_name |-> "",
     allowed_user_ids |-> <<PyStr("1002")>>,
     allowed_role_names |-> <<>>,
     servers |-> << <<"survival", "SMP">>, <<"creative", "Build">> >>,
     crafty |-> [username |-> "bob"]]

\* a document with one server
FileOne ==
    [has |-> {"update_interval", "allowed_user_ids", "servers"},
     update_interval |-> 5,
     category_name |-> "",
     allowed_user_ids |-> <<PyInt(1001)>>,
     allowed_role_names |-> <<>>,
     servers |-> << <<"survival", "SMP">> >>,
     crafty |-> [username |-> "alice"]]

\* a document in which one friendly name is part of another
FileSub ==
    [has |-> {"update_interval", "allowed_user_ids", "servers"},
     update_interval |-> 5,
     category_name |-> "",
     allowed_user_ids |-> <<PyInt(1001)>>,
     allowed_role_names |-> <<>>,
     servers |-> << <<"pvp2", "SMP">>, <<"pvp", "Build">> >>,
     crafty |-> [username |-> "alice"]]

\* a document with a server whose remote name is left empty
FileGap ==
    [has |-> {"update_interval", "allowed_user_ids", "servers"},
     update_interval |-> 5,
     category_name |-> "",
     allowed_user_ids |-> <<PyInt(1001)>>,
     allowed_role_names |-> <<>>,
     servers |-> << <<"hub", "">>, <<"survival", "SMP">> >>,
     crafty |-> [username |-> "alice"]]

\* the documents reload-config may find
ConfigFiles == {FileA, FileB}

\* all of them
AllFiles == ConfigFiles \cup {FileOne, FileSub, FileGap}

\* The friendly names of all documents, in the order the documents list them.
\* Every document lists its names in this order and the channel setup binds
\* them in the order of the document, so this is also the key order of every
\* dict channel_map holds.
FriendlyOrder == <<"hub", "survival", "creative", "pvp2", "pvp">>

SetDefault(file, key, default) == IF key \in file.has THEN file[key] ELSE default

\* load_config: the document with the defaults filled in
load_config(file) ==
    [update_interval |-> SetDefault(file, "update_interval", 60),
     category_name |-> SetDefault(file, "category_name", "Crafty Servers"),
     allowed_user_ids |-> SetDefault(file, "allowed_user_ids", <<>>),
     allowed_role_names |-> SetDefault(file, "allowed_role_names", <<>>),
     servers |-> SetDefault(file, "servers", <<>>),
     crafty |-> file.crafty]

\* the keys of an insertion-ordered dict given as a sequence of <<key, value>>
RECURSIVE Keys(_)
Keys(d) == IF d = <<>> THEN <<>> ELSE <<Head(d)[1]>> \o Keys(Tail(d))

\* the callers of slash commands: guild members with an id and role names
Callers ==
    {[id |-> 1001, roles |-> {}],
     [id |-> 1002, roles |-> {"Member", "Admin"}],
     [id |-> 1004, roles |-> {"admin"}]}

\* faulty variant of line 151: role names are compared without regard to case
is_authorized_nocase(user, c) ==
    \/ ToString(user.id) \in {Str(x) : x \in SeqToSet(c.allowed_user_ids)}
    \/ \E role \in user.roles :
          Lower(role) \in {Lower(r) : r \in SeqToSet(c.allowed_role_names)}

\* is_authorized, on the caller and the configuration in force
is_authorized(user, c) ==
    \/ ToString(user.id) \in {Str(x) : x \in SeqToSet(c.allowed_user_ids)}
    \/ \E role \in user.roles : role \in SeqToSet(c.allowed_role_names)

-----------------------------------------------------------------------------
(* The Crafty API as the client sees it *)

\* truthiness of an Optional[str]
Truthy(x) == x # None /\ x # ""

\* what awaiting an HTTP exchange yields: a status line, or one of the two
\* transport failures _request names
HttpResults ==
    {[kind |-> "status", status |-> 200],
     [kind |-> "status", status |-> 401],
     [kind |-> "status", status |-> 500],
     [kind |-> "ClientConnectionError", status |-> 0],
     [kind |-> "TimeoutError", status |-> 0]}

\* server descriptors of GET /api/v2/servers; server_name = None: the key is absent
ServerSMP == [server_name |-> "SMP", server_id |-> PyInt(42)]
ServerSMPb == [server_name |-> "SMP", server_id |-> PyStr("43")]
ServerBuild == [server_name |-> "Build", server_id |-> PyStr("7")]
ServerNoName == [server_name |-> None, server_id |-> PyInt(9)]

ServerLists ==
    {<<ServerSMP, ServerBuild>>,
     <<ServerSMP, ServerSMPb>>,
     <<ServerSMP, ServerNoName>>}

\* decoded bodies of POST /api/v2/auth/login.  data.kind: "absent" (no data
\* key), "dict", "str" or "null"; a dict has a token (None: it has no token
\* key) and may hold other keys; token: the top-level token (or None)
LoginBody(kind, dtoken, dother, dstr, ttoken) ==
    [data |-> [kind |-> kind, token |-> dtoken, other |-> dother, str |-> dstr],
     token |-> ttoken]

LoginBodies ==
    {LoginBody("dict", "t1", FALSE, "", None),
     LoginBody("absent", None, FALSE, "", "t2"),
     LoginBody("str", None, FALSE, "t1", None),
     LoginBody("dict", None, FALSE, "", None)}

\* decoded data of GET .../stats: running is "true", "false" or "absent"
StatsBodies == {[running |-> "true"], [running |-> "false"], [running |-> "absent"]}

\* decoded data of GET .../public
PublicBodies ==
    {[running |-> "true", online |-> 3, max |-> 20],
     [running |-> "false", online |-> 0, max |-> 20]}

\* login, line 70: js.get("data", {}).get("token") or js.get("token") or js.get("data")
\* raise: the expression raised (a str or None has no .get).  The third
\* operand is the dict data itself, truthy when it has any key (a token key
\* with an empty value included); it is written "<dict>".
ExtractToken(js) ==
    IF js.data.kind \in {"str", "null"}
    THEN [raise |-> TRUE, token |-> None]
    ELSE LET nested == IF js.data.kind = "dict" THEN js.data.token ELSE None
             whole == IF js.data.kind = "dict" /\ (js.data.token # None \/ js.data.other)
                      THEN "<dict>" ELSE None
         IN  [raise |-> FALSE,
              token |-> IF Truthy(nested) THEN nested
                        ELSE IF Truthy(js.token) THEN js.token
                        ELSE whole]

-----------------------------------------------------------------------------
(* refresh_server_map *)

\* line 158: {s["server_name"]: str(s["server_id"]) for s in servers}
RECURSIVE IdByName(_, _)
IdByName(servers, acc) ==
    IF servers = <<>> THEN [raise |-> FALSE, d |-> acc]
    ELSE IF Head(servers).server_name = None THEN [raise |-> TRUE, d |-> acc]
    ELSE IdByName(Tail(servers),
                  Put(acc, Head(servers).server_name, Str(Head(servers).server_id)))

\* faulty variant of line 161: the configured name is used without the lookup
ResolveSidNameOnly(id_by_name, craft_name) == craft_name

\* line 161: id_by_name.get(craft_name) or str(craft_name)
ResolveSid(id_by_name, craft_name) ==
    IF Truthy(Get(id_by_name, craft_name, None))
    THEN id_by_name[craft_name]
    ELSE craft_name

\* lines 159-162: new_map
RECURSIVE NewMap(_, _, _)
NewMap(scfg, id_by_name, acc) ==
    IF scfg = <<>> THEN acc
    ELSE NewMap(Tail(scfg), id_by_name,
                Put(acc, Head(scfg)[1], ResolveSid(id_by_name, Head(scfg)[2])))

\* faulty variant of lines 158-163: the map is assigned although the list
\* could not be indexed to its end
RefreshedMapPartial(old, servers, scfg) ==
    NewMap(scfg, IdByName(servers, EmptyDict).d, EmptyDict)

\* faulty variant of line 163: the entries of new_map are written into the
\* live map one by one, and only the first has been written
RefreshedMapMerge(old, servers, scfg) ==
    LET idx == IdByName(servers, EmptyDict)
        new == NewMap(scfg, idx.d, EmptyDict)
    IN  IF idx.raise THEN old
        ELSE [f \in DOMAIN new |-> IF f = scfg[1][1] THEN new[f] ELSE Get(old, f, new[f])]

\* the value server_map has after refresh_server_map handled the list `servers`
\* while the map was `old`: the assignment of line 163 is reached only when
\* nothing raised
RefreshedMap(old, servers, scfg) ==
    LET idx == IdByName(servers, EmptyDict)
    IN  IF idx.raise THEN old ELSE NewMap(scfg, idx.d, EmptyDict)

RefreshRaises(servers) == IdByName(servers, EmptyDict).raise

-----------------------------------------------------------------------------
(* ensure_channels_for_guild *)

\* discord.utils.get(guild.categories, name=CATEGORY_NAME), line 167: the
\* first category of guild g with that name; 0 when there is none
FindCategory(cats, g, name) ==
    LET hits == {id \in DOMAIN cats : cats[id].guild = g /\ cats[id].name = name}
    IN  IF hits = {} THEN 0 ELSE CHOOSE id \in hits : \A other \in hits : id <= other

\* category.voice_channels: the channel ids of category cat, in creation order
CategoryChannels(chs, cat) == {id \in DOMAIN chs : chs[id].category = cat}

\* the friendly names of the configuration documents and the channel names
\* the program writes for them
FriendlyNames == UNION {SeqToSet(Keys(file.servers)) : file \in AllFiles}

ChannelNames ==
    UNION {{PlaceholderName(f), OnlineName(f), OfflineName(f)} : f \in FriendlyNames}

\* line 174, friendly.lower() in ch.name.lower(), tabulated: for each channel
\* name the friendly names it contains
MatchTable ==
    [name \in ChannelNames |->
        {f \in FriendlyNames : Contains(Lower(name), Lower(f))}]

NameTable ==
    [f \in FriendlyNames |->
        [placeholder |-> PlaceholderName(f), online |-> OnlineName(f),
         offline |-> OfflineName(f)]]

\* lines 172-176: the first voice channel of the category whose lower-cased
\* name contains the lower-cased friendly name; 0 when there is none
FindChannel(chs, cat, friendly) ==
    LET hits == {id \in CategoryChannels(chs, cat) :
                    friendly \in MatchTable[chs[id].name]}
    IN  IF hits = {} THEN 0 ELSE CHOOSE id \in hits : \A other \in hits : id <= other

\* channel_map.setdefault(guild.id, {}), line 170, and the key order it leaves
SetDefaultGuild(cm, g) == IF g \in DOMAIN cm THEN cm ELSE Put(cm, g, EmptyDict)

OrderWith(order, g) == IF g \in SeqToSet(order) THEN order ELSE Append(order, g)

\* per_guild_map[friendly] = id, lines 179 and 181
Bind(cm, g, friendly, id) == Put(cm, g, Put(cm[g], friendly, id))

\* the locals of an ensure_channels_for_guild call that is suspended: guild,
\* the guild; name, the category name read at line 167; cat, the category
\* (0 while it is being created); todo, the friendly names its for loop has
\* still to yield, the first being the one whose channel is being created;
\* rest, the guilds the caller's for loop has still to yield
NoEns == [guild |-> "", name |-> "", cat |-> 0, todo |-> <<>>, rest |-> <<>>]

\* What the channel setup does, without suspending, from a given point on.
\* The result: channel_map and its key order, at ("category": suspended in
\* create_category, line 169; "channel": suspended in create_voice_channel,
\* line 178; "done": the caller's for loop over the guilds has ended) and the
\* locals.  conf: CATEGORY_NAME and SERVERS_CFG.keys() as the globals are now.
RECURSIVE EnsureGuilds(_, _, _, _, _, _)
RECURSIVE EnsureChannels(_, _, _, _, _, _, _, _, _)

\* lines 171-181 for the friendly names fs of guild g, then the guilds rest
EnsureChannels(cm, order, chs, cats, g, cat, fs, rest, conf) ==
    IF fs = <<>> THEN EnsureGuilds(cm, order, chs, cats, rest, conf)
    ELSE LET found == FindChannel(chs, cat, Head(fs))
         IN  IF found = 0
             THEN [channel_map |-> cm, channel_order |-> order, at |-> "channel",
                   loc |-> [guild |-> g, name |-> conf.category_name, cat |-> cat,
                            todo |-> fs, rest |-> rest]]
             ELSE EnsureChannels(Bind(cm, g, Head(fs), found), order, chs, cats,
                                 g, cat, Tail(fs), rest, conf)

\* for g in gs: ensure_channels_for_guild(g), lines 166-170 of each call
EnsureGuilds(cm, order, chs, cats, gs, conf) ==
    IF gs = <<>>
    THEN [channel_map |-> cm, channel_order |-> order, at |-> "done", loc |-> NoEns]
    ELSE LET g == Head(gs)
             cat == FindCategory(cats, g, conf.category_name)
         IN  IF cat = 0
             THEN [channel_map |-> cm, channel_order |-> order, at |-> "category",
                   loc |-> [guild |-> g, name |-> conf.category_name, cat |-> 0,
                            todo |-> <<>>, rest |-> Tail(gs)]]
             ELSE EnsureChannels(SetDefaultGuild(cm, g), OrderWith(order, g), chs, cats,
                                 g, cat, conf.keys, Tail(gs), conf)

\* create_category (at = "category", line 169) or create_voice_channel
\* (line 178) has returned to the setup whose locals are e: the new category
\* or channel gets the next id, the channel the placeholder name, and the
\* setup runs on to its next Discord call.  The result: that run, and the
\* channels and categories there are now.
AfterCreate(at, e, cm, order, chs, cats, conf) ==
    IF at = "category"
    THEN LET id == Cardinality(DOMAIN cats) + 1
             made == Put(cats, id, [guild |-> e.guild, name |-> e.name])
         IN  [run |-> EnsureChannels(SetDefaultGuild(cm, e.guild),
                                     OrderWith(order, e.guild), chs, made,
                                     e.guild, id, conf.keys, e.rest, conf),
              channels |-> chs, categories |-> made]
    ELSE LET id == Cardinality(DOMAIN chs) + 1
             made == Put(chs, id, [guild |-> e.guild, category |-> e.cat,
                                   name |-> NameTable[Head(e.todo)].placeholder])
         IN  [run |-> EnsureChannels(Bind(cm, e.guild, Head(e.todo), id), order, made,
                                     cats, e.guild, e.cat, Tail(e.todo), e.rest, conf),
              channels |-> made, categories |-> cats]

\* the channels and categories a channel setup leaves that runs from r to its
\* end, no Discord call raising and nothing else running in between
RECURSIVE SetupRun(_, _, _, _)
SetupRun(r, chs, cats, conf) ==
    IF r.at = "done" THEN [channels |-> chs, categories |-> cats]
    ELSE LET n == AfterCreate(r.at, r.loc, r.channel_map, r.channel_order, chs, cats, conf)
         IN  SetupRun(n.run, n.channels, n.categories, conf)

\* what an earlier run of the bot, with the configuration conf, has left in
\* the guilds gs
EarlierRun(conf, gs) ==
    SetupRun(EnsureGuilds(EmptyDict, <<>>, EmptyDict, EmptyDict, gs, conf),
             EmptyDict, EmptyDict, conf)

\* no channel and no category in any guild
NoDiscord == [channels |-> EmptyDict, categories |-> EmptyDict]

-----------------------------------------------------------------------------
(* State *)

\* main: on_ready, then the update_task loop it starts; cmd: the slash
\* command being served; join: on_guild_join; again: an on_ready that
\* discord.py fires after a reconnect
Tasks == {"main", "cmd", "join", "again"}

\* the tasks that run on_ready
ReadyTasks == {"main", "again"}

\* no request in flight
NoCall ==
    [op |-> "none", arg |-> "", action |-> "", stage |-> "idle", sent |-> None,
     attempts |-> 0, logins |-> 0, first |-> 0]

\* _request lines 78-91: the request is sent with the token held now.
\* op: "servers", "stats", "public" or "action"; arg: the server id of the
\* path; action: the action name of the path.
\* stage: "first" (retry=True), "login" (the re-login, or a direct login()),
\* "retry" (retry=False).  attempts: HTTP attempts of the request itself;
\* logins: login() calls made for it; first: status of the first attempt.
NewCall(op, arg, tk) ==
    [op |-> op, arg |-> arg, action |-> "", stage |-> "first",
     sent |-> IF Truthy(tk) THEN tk ELSE None,
     attempts |-> 1, logins |-> 0, first |-> 0]

\* faulty variant of line 95: the retry goes out with the header of the
\* attempt that was rejected
RetryStale(c, tk) == [c EXCEPT !.stage = "retry", !.attempts = @ + 1]

\* line 95 (and 81-82 of the nested call): the retry of request c is sent
\* with the token tk held by now
Retry(c, tk) == [c EXCEPT !.stage = "retry", !.sent = tk, !.attempts = @ + 1]

\* login() lines 62-65 called directly (on_ready)
NewLogin ==
    [op |-> "login", arg |-> "", action |-> "", stage |-> "login", sent |-> None,
     attempts |-> 0, logins |-> 1, first |-> 0]

\* history of a logical request (a _request call with its retry, or a direct
\* login()) that has ended: attempts, the HTTP attempts of the request;
\* logins, the login() calls made for it; first and second, the status of
\* the first attempt and of the retry (0: none); login, how the re-login
\* went ("none", "ok", "failed"); outcome, "ok" or the error raised;
\* kept, lstatus and body, for a direct login() whose record is kept: the
\* status and the decoded body of its response; body, for get_public: the
\* decoded data returned
NoLast ==
    [task |-> "none", op |-> "none", attempts |-> 0, logins |-> 0, first |-> 0,
     second |-> 0, login |-> "none", outcome |-> "none", kept |-> FALSE,
     lstatus |-> 0, body |-> None]

\* the record of a logical request that ends in `outcome` when the exchange of
\* its current stage yields `status` (0: no status line)
Finished(t, c, outcome, status, login) ==
    [task |-> t, op |-> c.op, attempts |-> c.attempts, logins |-> c.logins,
     first |-> IF c.stage = "first" THEN status ELSE c.first,
     second |-> IF c.stage = "retry" THEN status ELSE 0,
     login |-> login, outcome |-> outcome, kept |-> FALSE, lstatus |-> 0,
     body |-> None]

\* the record of a login() that ends in `outcome` on a response of status
\* `status` (0: no status line) and decoded body js; keep: the history keeps
\* status and body of a direct login() (on_ready)
LoginFinished(t, c, outcome, status, js, keep) ==
    LET fin == Finished(t, c, outcome, status, IF outcome = "ok" THEN "ok" ELSE "failed")
    IN  IF c.op = "login" /\ keep
        THEN [fin EXCEPT !.kept = TRUE, !.lstatus = status, !.body = js]
        ELSE fin

\* the record of a request answered `status` with the decoded body `body`
\* (kept for get_public, whose data the status command shows)
BodyFinished(t, c, status, login, body) ==
    IF c.op = "public"
    THEN [Finished(t, c, "ok", status, login) EXCEPT !.body = body]
    ELSE Finished(t, c, "ok", status, login)

\* history of a refresh_server_map call that has ended: by, the task; result,
\* "ok" or the error it raised; servers, the list get_servers returned;
\* scfg, SERVERS_CFG as the call read it; before, server_map when the call
\* raised
NoRefresh ==
    [by |-> "none", result |-> "none", servers |-> <<>>, scfg |-> <<>>,
     before |-> EmptyDict]

NoCycle ==
    [refresh |-> "none", err |-> "none", visited |-> {}, fetched |-> {},
     failed |-> {}, edits |-> {}, lu0 |-> EmptyDict, done |-> FALSE, reads |-> {}]

\* history of the latest comparison of a channel's name with new_name in the
\* current run of update_task (line 333): act, what followed ("same": the
\* names agree, "cooldown": line 338, "edit": line 339); at, the time; since,
\* the time of the channel's latest successful rename; deferred, the
\* cooldown had blocked the channel's rename the time before
NoDecision == [ch |-> 0, act |-> "none", at |-> 0, since |-> 0, deferred |-> FALSE]

\* the locals of update_task while it is suspended in its for loops: guild
\* and friendly, ch_id of the item yielded last (line 317); glen, the size
\* channel_map had when the outer for began; flen, the size per_guild_map
\* had when the inner for began
NoIter == [guild |-> "", friendly |-> "", ch_id |-> 0, glen |-> 0, flen |-> 0]

\* cmd: the invocation being served or served last: who invoked what, the
\* reply sent (ephemeral: visible to the caller only; data: the fields a
\* status reply shows) and the number of HTTP requests sent to the Crafty
\* API for it
NoCmd ==
    [user |-> [id |-> 0, roles |-> {}], name |-> "none", server |-> "",
     reply |-> "none", ephemeral |-> FALSE,
     data |-> [running |-> "absent", online |-> 0, max |-> 0], http |-> 0]

\* The state once the module is loaded (lines 135-144) and the bot is
\* connected, for the configuration document `file`, the crafty credentials
\* of bearer, the guilds gs and what there is in them
InitState(file, bearer, gs, discord) ==
    /\ now = CHANNEL_COOLDOWN + 5
    /\ bearer_token = bearer
    /\ username = file.crafty.username
    /\ token = None
    /\ closed = FALSE
    /\ cfg = load_config(file)
    /\ SERVERS_CFG = load_config(file).servers
    /\ update_interval = load_config(file).update_interval
    /\ server_map = EmptyDict
    /\ rf = NoRefresh
    /\ channel_map = EmptyDict
    /\ channel_order = <<>>
    /\ channel_last_update = EmptyDict
    /\ guilds = gs
    /\ channels = discord.channels
    /\ categories = discord.categories
    /\ ens = [t \in Tasks |-> NoEns]
    /\ pc = [t \in Tasks |-> IF t = "main" THEN "start" ELSE "idle"]
    /\ call = [t \in Tasks |-> NoCall]
    /\ last = NoLast
    /\ login_http = FALSE
    /\ loop = [state |-> "unstarted", seconds |-> load_config(file).update_interval,
               next |-> 0, idx |-> 0, ch |-> 0, new_name |-> "", nowc |-> 0,
               dec |-> NoDecision, it |-> NoIter]
    /\ cyc = NoCycle
    /\ ren = EmptyDict
    /\ cmd = NoCmd

\* the bot's first run in the guilds gs
InitWith(file, bearer, gs) == InitState(file, bearer, gs, NoDiscord)

\* a restart of the bot: the category and the channels of an earlier run
\* with the same configuration document are there
InitAgain(file, bearer, gs) ==
    InitState(file, bearer, gs,
              EarlierRun([category_name |-> load_config(file).category_name,
                          keys |-> Keys(load_config(file).servers)], gs))

-----------------------------------------------------------------------------
(* update_task: the walk over channel_map *)

\* the (guild, friendly, channel id) items the two nested for loops of
\* update_task yield, in order
RECURSIVE GuildBindings(_, _, _)
GuildBindings(cm, g, fs) ==
    IF fs = <<>> THEN <<>>
    ELSE (IF Head(fs) \in DOMAIN cm[g] THEN << <<g, Head(fs), cm[g][Head(fs)]>> >> ELSE <<>>)
         \o GuildBindings(cm, g, Tail(fs))

RECURSIVE Bindings(_, _, _)
Bindings(cm, gs, fs) ==
    IF gs = <<>> THEN <<>>
    ELSE (IF Head(gs) \in DOMAIN cm THEN GuildBindings(cm, Head(gs), fs) ELSE <<>>)
         \o Bindings(cm, Tail(gs), fs)

AllBindings == Bindings(channel_map, channel_order, FriendlyOrder)

\* the place of the item update_task was yielded last among the bindings as
\* they are now (keys are appended, never removed); 0 before the first item
RECURSIVE PlaceOf(_, _, _)
PlaceOf(B, g, friendly) ==
    IF B = <<>> THEN 0
    ELSE IF B[Len(B)][1] = g /\ B[Len(B)][2] = friendly THEN Len(B)
    ELSE PlaceOf(SubSeq(B, 1, Len(B) - 1), g, friendly)

HerePlace == PlaceOf(AllBindings, loop.it.guild, loop.it.friendly)

\* lines 318-320: sid = server_map.get(friendly); if not sid: continue
Mapped(sm, friendly) == Truthy(Get(sm, friendly, None))

\* new_name of update_task, lines 327-330
NewName(friendly, running) ==
    IF running THEN NameTable[friendly].online ELSE NameTable[friendly].offline

\* faulty variant of line 334: the operands of the subtraction are swapped,
\* so the cooldown never blocks
CooldownBlocksSwapped(t, lastt) == lastt - t > CHANNEL_COOLDOWN

\* faulty variant of line 334: <= for <, so a rename is still blocked when
\* exactly the cooldown has elapsed
CooldownBlocksInclusive(t, lastt) == t - lastt <= CHANNEL_COOLDOWN

\* line 336: now - last < CHANNEL_COOLDOWN
CooldownBlocks(t, lastt) == t - lastt < CHANNEL_COOLDOWN

\* size of a dict
Size(d) == Cardinality(DOMAIN d)

\* The for loops of lines 311-320 go on from item i of the bindings: the
\* items of a guild that bot.get_guild does not find when the outer loop
\* comes to it (lines 312-315) and the unmapped items are skipped, the stats
\* of the first item left are requested (line 323), and past the last item
\* the run of update_task ends.  The guild is looked up once, before the
\* inner loop: the items of the guild the inner loop is in are not tested
\* again.
\* sm, cycv, loopv: the values server_map, cyc and loop have by now; tk: the
\* token held.  Asking a dict iterator for its next item raises RuntimeError
\* when the size of the dict is not what it was when the for began (a key
\* was added during a suspension): the inner iterator is asked first, the
\* outer one when the inner one is exhausted.  No try encloses the for
\* statements: the run of update_task and the loop end.
\* cyc.reads: the server_map.get(friendly) of line 318 that yielded an id.
Advance(i, sm, cycv, loopv, tk) ==
    LET B == AllBindings
        n == Len(B)
        it == loopv.it
        cand == {j \in i..n : /\ (B[j][1] = it.guild \/ B[j][1] \in SeqToSet(guilds))
                               /\ Mapped(sm, B[j][2])}
        j == IF cand = {} THEN 0 ELSE CHOOSE j \in cand : \A k \in cand : j <= k
        innerRaises == it.guild # "" /\ Size(channel_map[it.guild]) # it.flen
        innerEnds == j = 0 \/ B[j][1] # it.guild
        outerRaises == innerEnds /\ Size(channel_map) # it.glen
    IN  IF innerRaises \/ outerRaises
        THEN /\ pc' = [pc EXCEPT !.main = "dead"]
             /\ call' = [call EXCEPT !.main = NoCall]
             /\ loop' = [loopv EXCEPT !.state = "failed", !.idx = 0, !.it = NoIter]
             /\ cyc' = [cycv EXCEPT !.err = "OtherError"]
        ELSE IF j = 0
        THEN /\ pc' = [pc EXCEPT !.main = "sleep"]
             /\ call' = [call EXCEPT !.main = NoCall]
             /\ loop' = [loopv EXCEPT !.idx = 0, !.it = NoIter]
             /\ cyc' = [cycv EXCEPT !.visited = @ \cup (i..n), !.done = TRUE]
        ELSE /\ pc' = [pc EXCEPT !.main = "cycle_stats"]
             /\ call' = [call EXCEPT !.main = NewCall("stats", sm[B[j][2]], tk)]
             /\ loop' = [loopv EXCEPT !.idx = j,
                                      !.it = [guild |-> B[j][1], friendly |-> B[j][2],
                                              ch_id |-> B[j][3], glen |-> it.glen,
                                              flen |-> Size(channel_map[B[j][1]])]]
             /\ cyc' = [cycv EXCEPT !.visited = @ \cup (i..j),
                                    !.fetched = @ \cup {j},
                                    !.reads = @ \cup {[friendly |-> B[j][2],
                                                        sid |-> sm[B[j][2]]]}]

-----------------------------------------------------------------------------
(* What each coroutine does when the request it awaits has ended.           *)
(* oc: "ok" or the error raised; body: the decoded JSON when ok; tk: the    *)
(* token held.  Each states the next value of every variable but now,       *)
(* bearer_token, token, last and login_http.                                *)

\* history of a channel: issued, the time (line 334) of its latest rename
\* that has ended, successful or not; last_ok, that of its latest successful
\* rename; deferred, the cooldown blocked its latest needed rename
NoRen == [issued |-> 0, last_ok |-> 0, deferred |-> FALSE]

confVars == <<cfg, SERVERS_CFG, update_interval, guilds>>
\* the bindings, the Discord side and the channel setups in progress
discordVars == <<channel_map, channel_order, channels, categories, ens>>
renameVars == <<channel_last_update, ren>>
mapVars == <<server_map, rf>>

\* the record of a refresh_server_map call of task t: get_servers ended in oc
\* with the list body
Refreshed(t, oc, body) ==
    IF oc # "ok"
    THEN [NoRefresh EXCEPT !.by = t, !.result = oc, !.before = server_map]
    ELSE IF RefreshRaises(body)
    THEN [NoRefresh EXCEPT !.by = t, !.result = "OtherError", !.servers = body,
                           !.before = server_map]
    ELSE [NoRefresh EXCEPT !.by = t, !.result = "ok", !.servers = body,
                           !.scfg = SERVERS_CFG]

\* CATEGORY_NAME and SERVERS_CFG.keys() as the globals are
Conf == [category_name |-> cfg.category_name, keys |-> Keys(SERVERS_CFG)]

\* The channel setup of task t has gone on to r (a result of EnsureGuilds or
\* EnsureChannels), the Discord side being chs and cats by now.  When the for
\* loop over the guilds has ended: on_ready goes on to bot.tree.sync() (line
\* 209), reload_config to its reply (line 305), on_guild_join returns.
EnsureThen(t, r, chs, cats) ==
    /\ channels' = chs
    /\ categories' = cats
    /\ channel_map' = r.channel_map
    /\ channel_order' = r.channel_order
    /\ ens' = [ens EXCEPT ![t] = r.loc]
    /\ pc' = [pc EXCEPT ![t] =
                CASE r.at = "category" -> "ens_category"
                  [] r.at = "channel" -> "ens_channel"
                  [] r.at = "done" /\ t \in ReadyTasks -> "ready_sync"
                  [] OTHER -> "idle"]
    /\ cmd' = IF t = "cmd" /\ r.at = "done"
              THEN [cmd EXCEPT !.reply = "Config reloaded", !.ephemeral = TRUE]
              ELSE cmd

\* on_ready lines 192-196, after login() returned or raised: refresh_server_map
AfterReadyLogin(t, tk) ==
    /\ pc' = [pc EXCEPT ![t] = "ready_refresh"]
    /\ call' = [call EXCEPT ![t] = NewCall("servers", "", tk)]
    /\ UNCHANGED <<confVars, discordVars, renameVars, mapVars, loop, cyc, cmd>>

\* on_ready lines 193-203, after get_servers returned or raised: the rest of
\* refresh_server_map, then the channel setup of every guild up to its first
\* suspension
AfterReadyRefresh(t, oc, body) ==
    /\ server_map' = IF oc = "ok"
                     THEN RefreshedMap(server_map, body, SERVERS_CFG)
                     ELSE server_map
    /\ rf' = Refreshed(t, oc, body)
    /\ call' = [call EXCEPT ![t] = NoCall]
    /\ EnsureThen(t, EnsureGuilds(channel_map, channel_order, channels, categories,
                                  guilds, Conf),
                  channels, categories)
    /\ UNCHANGED <<confVars, renameVars, loop, cyc>>

\* How a run of update_task that raised at line 310 leaves the tasks.loop:
\* the loop retries after a back-off on the connection errors and timeouts
\* it takes for transient, and ends on any other exception.
LoopAfterRaise(err) == IF err = "TransportError" THEN "sleep" ELSE "dead"

\* faulty variant of lines 310-311: a failure of refresh_server_map is
\* swallowed and the cycle goes on over channel_map with the map it has
AfterCycleRefreshSwallow(oc, body, tk) ==
    IF oc = "ok" /\ ~RefreshRaises(body)
    THEN /\ server_map' = RefreshedMap(server_map, body, SERVERS_CFG)
         /\ rf' = Refreshed("main", oc, body)
         /\ Advance(1, server_map', [cyc EXCEPT !.refresh = "ok", !.lu0 = EmptyDict],
                    [loop EXCEPT !.it = [NoIter EXCEPT !.glen = Size(channel_map)]], tk)
         /\ UNCHANGED <<confVars, discordVars, renameVars, cmd>>
    ELSE /\ rf' = Refreshed("main", oc, body)
         /\ Advance(1, server_map,
                    [cyc EXCEPT !.refresh = "failed",
                                !.err = IF oc = "ok" THEN "OtherError" ELSE oc],
                    [loop EXCEPT !.it = [NoIter EXCEPT !.glen = Size(channel_map)]], tk)
         /\ UNCHANGED <<confVars, discordVars, renameVars, server_map, cmd>>

\* update_task line 310 onwards, after get_servers returned or raised
AfterCycleRefresh(oc, body, tk) ==
    IF oc = "ok" /\ ~RefreshRaises(body)
    THEN /\ server_map' = RefreshedMap(server_map, body, SERVERS_CFG)
         /\ rf' = Refreshed("main", oc, body)
         /\ Advance(1, server_map', [cyc EXCEPT !.refresh = "ok", !.lu0 = EmptyDict],
                    [loop EXCEPT !.it = [NoIter EXCEPT !.glen = Size(channel_map)]], tk)
         /\ UNCHANGED <<confVars, discordVars, renameVars, cmd>>
    ELSE LET err == IF oc = "ok" THEN "OtherError" ELSE oc
         IN  /\ pc' = [pc EXCEPT !.main = LoopAfterRaise(err)]
             /\ call' = [call EXCEPT !.main = NoCall]
             /\ loop' = [loop EXCEPT !.next = IF LoopAfterRaise(err) = "sleep" THEN now ELSE @,
                                     !.state = IF LoopAfterRaise(err) = "sleep"
                                               THEN "running" ELSE "failed"]
             /\ cyc' = [cyc EXCEPT !.refresh = "failed", !.err = err]
             /\ server_map' = IF oc = "ok"
                              THEN RefreshedMap(server_map, body, SERVERS_CFG)
                              ELSE server_map
             /\ rf' = Refreshed("main", oc, body)
             /\ UNCHANGED <<confVars, discordVars, renameVars, cmd>>

\* faulty variant of lines 322-343 without the try: the exception of
\* get_stats leaves update_task and ends the loop
StatsFailedAbort(tk) ==
    /\ pc' = [pc EXCEPT !.main = "dead"]
    /\ call' = [call EXCEPT !.main = NoCall]
    /\ loop' = [loop EXCEPT !.state = "failed", !.idx = 0, !.it = NoIter]
    /\ cyc' = [cyc EXCEPT !.failed = @ \cup {loop.idx}]
    /\ UNCHANGED <<confVars, discordVars, renameVars, mapVars, cmd>>

\* update_task lines 342-343: get_stats raised; the except clause logs and
\* the for loop goes on
StatsFailed(tk) ==
    /\ Advance(HerePlace + 1, server_map,
               [cyc EXCEPT !.failed = @ \cup {loop.idx}], loop, tk)
    /\ UNCHANGED <<confVars, discordVars, renameVars, mapVars, cmd>>

\* update_task lines 324-340, after get_stats returned: friendly and ch_id
\* are the locals bound at line 317, before the request
StatsOk(body, tk) ==
    LET friendly == loop.it.friendly
        ch == loop.it.ch_id
        r == Get(ren, ch, NoRen)
        new_name == NewName(friendly, Bool(body.running))
        differs == ch \in DOMAIN channels /\ channels[ch].name # new_name
        dec == [ch |-> ch, act |-> "same", at |-> now, since |-> r.last_ok,
                deferred |-> r.deferred]
    IN  IF differs /\ ~CooldownBlocks(now, Get(channel_last_update, ch, 0))
        THEN \* line 339: await ch.edit(name=new_name)
             /\ pc' = [pc EXCEPT !.main = "cycle_edit"]
             /\ call' = [call EXCEPT !.main = NoCall]
             /\ loop' = [loop EXCEPT !.ch = ch, !.new_name = new_name, !.nowc = now,
                                     !.dec = [dec EXCEPT !.act = "edit"]]
             /\ cyc' = [cyc EXCEPT !.edits = @ \cup {ch}]
             /\ ren' = Put(ren, ch, [r EXCEPT !.deferred = FALSE])
             /\ UNCHANGED <<confVars, discordVars, channel_last_update, mapVars, cmd>>
        ELSE \* the names agree, or line 338: continue
             /\ Advance(HerePlace + 1, server_map, cyc,
                        [loop EXCEPT !.dec = [dec EXCEPT !.act =
                             IF differs THEN "cooldown" ELSE "same"]], tk)
             /\ ren' = Put(ren, ch, [r EXCEPT !.deferred = differs])
             /\ UNCHANGED <<confVars, discordVars, channel_last_update, mapVars, cmd>>

\* update_task lines 322-343, after get_stats returned or raised
AfterStats(oc, body, tk) ==
    IF oc # "ok" THEN StatsFailed(tk) ELSE StatsOk(body, tk)

\* the reply of start / stop / restart, lines 247-248
ActionReply(action) ==
    CASE action = "start_server" -> "Starting"
      [] action = "stop_server" -> "Stopping"
      [] action = "restart_server" -> "Restarting"

\* start / stop / restart after action_server returned or raised
AfterAction(oc) ==
    /\ cmd' = [cmd EXCEPT !.reply = IF oc = "ok" THEN ActionReply(call.cmd.action) ELSE oc,
                          !.ephemeral = FALSE]
    /\ pc' = [pc EXCEPT !.cmd = "idle"]
    /\ call' = [call EXCEPT !.cmd = NoCall]
    /\ UNCHANGED <<confVars, discordVars, renameVars, mapVars, loop, cyc>>

\* faulty variant of lines 287-290: the reply shows the player counts of no
\* response
AfterPublicNoPlayers(oc, body) ==
    /\ cmd' = [cmd EXCEPT !.reply = IF oc = "ok" THEN "Status" ELSE oc,
                          !.data = IF oc = "ok" THEN [body EXCEPT !.online = 0] ELSE @,
                          !.ephemeral = FALSE]
    /\ pc' = [pc EXCEPT !.cmd = "idle"]
    /\ call' = [call EXCEPT !.cmd = NoCall]
    /\ UNCHANGED <<confVars, discordVars, renameVars, mapVars, loop, cyc>>

\* status lines 286-290, after get_public returned or raised
AfterPublic(oc, body) ==
    /\ cmd' = [cmd EXCEPT !.reply = IF oc = "ok" THEN "Status" ELSE oc,
                          !.data = IF oc = "ok" THEN body ELSE @,
                          !.ephemeral = FALSE]
    /\ pc' = [pc EXCEPT !.cmd = "idle"]
    /\ call' = [call EXCEPT !.cmd = NoCall]
    /\ UNCHANGED <<confVars, discordVars, renameVars, mapVars, loop, cyc>>

\* reload_config lines 302-305, after get_servers returned or raised: the
\* rest of refresh_server_map, then the channel setup of every guild up to
\* its first suspension
AfterReload(oc, body) ==
    IF oc = "ok" /\ ~RefreshRaises(body)
    THEN /\ server_map' = RefreshedMap(server_map, body, SERVERS_CFG)
         /\ rf' = Refreshed("cmd", oc, body)
         /\ call' = [call EXCEPT !.cmd = NoCall]
         /\ EnsureThen("cmd", EnsureGuilds(channel_map, channel_order, channels,
                                           categories, guilds, Conf),
                       channels, categories)
         /\ UNCHANGED <<confVars, renameVars, loop, cyc>>
    ELSE /\ cmd' = [cmd EXCEPT !.reply = IF oc = "ok" THEN "OtherError" ELSE oc,
                               !.ephemeral = FALSE]
         /\ pc' = [pc EXCEPT !.cmd = "idle"]
         /\ call' = [call EXCEPT !.cmd = NoCall]
         /\ server_map' = IF oc = "ok"
                          THEN RefreshedMap(server_map, body, SERVERS_CFG)
                          ELSE server_map
         /\ rf' = Refreshed("cmd", oc, body)
         /\ UNCHANGED <<confVars, discordVars, renameVars, loop, cyc>>

Continue(t, oc, body, tk) ==
    CASE pc[t] = "ready_login" -> AfterReadyLogin(t, tk)
      [] pc[t] = "ready_refresh" -> AfterReadyRefresh(t, oc, body)
      [] pc[t] = "cycle_refresh" -> AfterCycleRefresh(oc, body, tk)
      [] pc[t] = "cycle_stats" -> AfterStats(oc, body, tk)
      [] pc[t] = "cmd_action" -> AfterAction(oc)
      [] pc[t] = "cmd_public" -> AfterPublic(oc, body)
      [] pc[t] = "cmd_reload" -> AfterReload(oc, body)

-----------------------------------------------------------------------------
(* The API client *)

\* faulty variant of line 92: the retry flag is not consulted, so a 401 on
\* the retry logs in again
ShouldReloginEveryTime(status, retry, bearer) == status = 401 /\ ~Truthy(bearer)

\* faulty variant of line 92: the static token is not consulted, so a 401
\* calls login() and retries whatever the credentials
ShouldReloginAnyCredentials(status, retry, bearer) == status = 401 /\ retry

\* _request line 92
ShouldRelogin(status, retry, bearer) == status = 401 /\ retry /\ ~Truthy(bearer)

\* login line 57
UsesStaticToken(bearer) == Truthy(bearer)

\* the decoded bodies a successful exchange of operation op may carry
Bodies(op) ==
    CASE op = "servers" -> ServerLists
      [] op = "stats" -> StatsBodies
      [] op = "public" -> PublicBodies
      [] op = "action" -> {None}

\* one more HTTP request sent on behalf of the command being served
Sent(t) == IF t = "cmd" THEN [cmd EXCEPT !.http = @ + 1] ELSE cmd

\* last once task t goes on to something else
Forget(t) == IF last.task = t THEN NoLast ELSE last

\* the logical request of task t ends: its caller resumes.  last keeps the
\* record of the request until a request ends after it or its task goes on.
Deliver(t, fin, body, tk) ==
    /\ token' = tk
    /\ closed' = (closed /\ fin.login # "ok")
    /\ UNCHANGED <<now, bearer_token, username, login_http>>
    /\ Continue(t, fin.outcome, body, tk)
    /\ last' = IF call'[t].stage = "idle" \/ fin.kept THEN fin ELSE Forget(t)

\* _request lines 91-109: the exchange of a request (first attempt or retry)
\* of task t ends
HttpRespond(t) ==
    /\ call[t].stage \in {"first", "retry"}
    /\ \E r \in HttpResults :
        LET c == call[t]
            loginState == IF c.stage = "retry" THEN "ok" ELSE "none"
        IN  IF r.kind # "status"
            THEN Deliver(t, Finished(t, c, "TransportError", 0, loginState), None, token)
            ELSE IF ShouldRelogin(r.status, c.stage = "first", bearer_token)
            THEN IF UsesStaticToken(bearer_token)
                 THEN \* login() returns the static token; line 95 retries at once
                      /\ token' = bearer_token
                      /\ closed' = FALSE
                      /\ call' = [call EXCEPT ![t] =
                                    Retry([c EXCEPT !.logins = @ + 1, !.first = r.status],
                                          bearer_token)]
                      /\ cmd' = Sent(t)
                      /\ UNCHANGED <<now, bearer_token, username, confVars, discordVars, renameVars,
                                     mapVars, pc, last, login_http, loop, cyc>>
                 ELSE \* login() lines 62-65: POST /api/v2/auth/login
                      /\ call' = [call EXCEPT ![t] =
                                    [c EXCEPT !.stage = "login", !.logins = @ + 1,
                                              !.first = r.status]]
                      /\ login_http' = TRUE
                      /\ cmd' = Sent(t)
                      /\ UNCHANGED <<now, bearer_token, username, token, closed, confVars, discordVars,
                                     renameVars, mapVars, pc, last, loop, cyc>>
            ELSE IF r.status >= 400
            THEN Deliver(t, Finished(t, c, "ApiError", r.status, loginState), None, token)
            ELSE \E body \in Bodies(c.op) :
                    Deliver(t, BodyFinished(t, c, r.status, loginState, body), body, token)

\* login lines 64-75: the exchange of POST /api/v2/auth/login of task t ends
LoginResponse(t, keep) ==
    /\ call[t].stage = "login"
    /\ \E r \in HttpResults :
        LET c == call[t]
        IN  IF r.kind # "status"
            THEN Deliver(t, LoginFinished(t, c, "TransportError", 0, None, keep), None, token)
            ELSE IF r.status >= 400
            THEN Deliver(t, LoginFinished(t, c, "AuthError", r.status, None, keep), None, token)
            ELSE \E js \in LoginBodies :
                    LET x == ExtractToken(js)
                    IN  IF x.raise
                        THEN Deliver(t, LoginFinished(t, c, "OtherError", r.status, js, keep), None, token)
                        ELSE IF ~Truthy(x.token)
                        THEN Deliver(t, LoginFinished(t, c, "AuthError", r.status, js, keep), None, token)
                        ELSE IF c.op = "login"
                        THEN Deliver(t, LoginFinished(t, c, "ok", r.status, js, keep), None, x.token)
                        ELSE \* line 95: the retry, sent with the new token
                             /\ token' = x.token
                             /\ closed' = FALSE
                             /\ call' = [call EXCEPT ![t] = Retry(c, x.token)]
                             /\ cmd' = Sent(t)
                             /\ UNCHANGED <<now, bearer_token, username, confVars, discordVars,
                                            renameVars, mapVars, pc, last, login_http,
                                            loop, cyc>>

LoginRespond(t) == LoginResponse(t, FALSE)

\* the same, the history keeping what a direct login() was answered
LoginRespondKept == LoginResponse("main", TRUE)

-----------------------------------------------------------------------------
(* on_ready and update_task *)

\* on_ready lines 186-190 run by task t: crafty_client.login()
ReadyStart(t) ==
    /\ IF UsesStaticToken(bearer_token)
       THEN /\ token' = bearer_token
            /\ closed' = FALSE
            /\ UNCHANGED <<last, login_http>>
            /\ AfterReadyLogin(t, bearer_token)
       ELSE /\ pc' = [pc EXCEPT ![t] = "ready_login"]
            /\ call' = [call EXCEPT ![t] = NewLogin]
            /\ login_http' = TRUE
            /\ UNCHANGED <<token, closed, last, confVars, discordVars, renameVars, mapVars,
                           loop, cyc, cmd>>
    /\ UNCHANGED <<now, bearer_token, username>>

\* on_ready, fired when the bot has connected
OnReady ==
    /\ pc.main = "start"
    /\ ReadyStart("main")

\* on_ready, fired again after a reconnect, the first one having ended
OnReadyAgain ==
    /\ pc.again = "idle"
    /\ loop.state # "unstarted"
    /\ ReadyStart("again")

\* on_ready line 219, update_task.start(), called by task t: a tasks.loop
\* whose task has not ended raises RuntimeError (on_ready ends there);
\* one that was never started, or has ended, is started
StartLoop(t) ==
    IF loop.state = "running"
    THEN /\ pc' = [pc EXCEPT ![t] = "idle"]
         /\ UNCHANGED loop
    ELSE /\ pc' = [pc EXCEPT ![t] = "idle", !.main = "sleep"]
         /\ loop' = [loop EXCEPT !.state = "running", !.next = now]

\* The Discord call task t awaits returns (ok) or raises: create_category
\* (line 169), create_voice_channel (line 178) or bot.tree.sync() (line 209).
\* A call of the channel setup that raises ends the setup of that guild: the
\* for loop of on_ready goes on to the next guild (lines 199-203),
\* on_guild_join returns (lines 225-228), reload_config raises and sends no
\* reply (lines 303-305).  What bot.tree.sync() does is logged only.
DiscordRespond(t) ==
    /\ pc[t] \in {"ens_category", "ens_channel", "ready_sync"}
    /\ \E ok \in BOOLEAN :
        LET e == ens[t]
        IN  IF pc[t] = "ready_sync"
            THEN /\ StartLoop(t)
                 /\ UNCHANGED <<discordVars, cmd>>
            ELSE IF ~ok
            THEN IF t = "cmd"
                 THEN /\ cmd' = [cmd EXCEPT !.reply = "DiscordError", !.ephemeral = FALSE]
                      /\ pc' = [pc EXCEPT !.cmd = "idle"]
                      /\ ens' = [ens EXCEPT !.cmd = NoEns]
                      /\ UNCHANGED <<channel_map, channel_order, channels, categories, loop>>
                 ELSE /\ EnsureThen(t, EnsureGuilds(channel_map, channel_order, channels,
                                                    categories, e.rest, Conf),
                                    channels, categories)
                      /\ UNCHANGED loop
            ELSE LET n == AfterCreate(IF pc[t] = "ens_category" THEN "category"
                                      ELSE "channel",
                                      e, channel_map, channel_order, channels,
                                      categories, Conf)
                 IN  /\ EnsureThen(t, n.run, n.channels, n.categories)
                     /\ UNCHANGED loop
    /\ UNCHANGED <<now, bearer_token, username, token, closed, confVars, renameVars, mapVars,
                   call, last, login_http, cyc>>

\* The bot is removed from a guild: bot.guilds and bot.get_guild (lines 198,
\* 303 and 312) no longer yield it.  bot.py has no handler for the event and
\* keeps the guild's entry of channel_map.
GuildRemoved ==
    /\ \E g \in SeqToSet(guilds) :
        guilds' = SelectSeq(guilds, LAMBDA x : x # g)
    /\ UNCHANGED <<now, bearer_token, username, token, closed, cfg, SERVERS_CFG,
                   update_interval, discordVars, renameVars, mapVars, pc, call, last,
                   login_http, loop, cyc, cmd>>

\* the guilds the bot may join while it runs
JoinGuilds == {"g3"}

\* on_guild_join, lines 223-228: the channel setup of the new guild
OnGuildJoin ==
    /\ pc.join = "idle"
    /\ \E g \in JoinGuilds \ SeqToSet(guilds) :
        /\ guilds' = Append(guilds, g)
        /\ EnsureThen("join", EnsureGuilds(channel_map, channel_order, channels,
                                           categories, <<g>>, Conf),
                      channels, categories)
    /\ UNCHANGED <<now, bearer_token, username, token, closed, cfg, SERVERS_CFG,
                   update_interval, renameVars, mapVars, call, last, login_http, loop, cyc>>

\* tasks.loop runs update_task when its next iteration is due: line 310,
\* refresh_server_map calls get_servers
CycleStart ==
    /\ pc.main = "sleep"
    /\ now >= loop.next
    /\ pc' = [pc EXCEPT !.main = "cycle_refresh"]
    /\ call' = [call EXCEPT !.main = NewCall("servers", "", token)]
    /\ loop' = [loop EXCEPT !.next = now + loop.seconds, !.idx = 0, !.dec = NoDecision]
    /\ cyc' = [NoCycle EXCEPT !.refresh = "pending", !.lu0 = channel_last_update]
    /\ last' = Forget("main")
    /\ UNCHANGED <<now, bearer_token, username, token, closed, confVars, discordVars, renameVars,
                   mapVars, login_http, cmd>>

\* faulty variant of lines 339-340: the timestamp is recorded whether the
\* rename succeeded or raised
EditRespondStampAlways ==
    /\ pc.main = "cycle_edit"
    /\ \E ok \in BOOLEAN :
        /\ channels' = IF ok THEN [channels EXCEPT ![loop.ch].name = loop.new_name]
                       ELSE channels
        /\ channel_last_update' = Put(channel_last_update, loop.ch, loop.nowc)
        /\ ren' = IF ok THEN [ren EXCEPT ![loop.ch].last_ok = loop.nowc,
                                         ![loop.ch].issued = loop.nowc]
                  ELSE [ren EXCEPT ![loop.ch].issued = loop.nowc]
        /\ Advance(HerePlace + 1, server_map,
                   IF ok THEN cyc ELSE [cyc EXCEPT !.failed = @ \cup {loop.idx}],
                   [loop EXCEPT !.ch = 0, !.new_name = "", !.nowc = 0], token)
        /\ UNCHANGED <<channel_map, channel_order, categories, ens>>
    /\ UNCHANGED <<now, bearer_token, username, token, closed, confVars, mapVars, last,
                   login_http, cmd>>

\* loop once the locals ch, new_name and now of the ended iteration are dropped
EditEnded == [loop EXCEPT !.ch = 0, !.new_name = "", !.nowc = 0]

\* update_task lines 339-343: ch.edit returned (ok) or raised
EditRespond ==
    /\ pc.main = "cycle_edit"
    /\ \E ok \in BOOLEAN :
        IF ok
        THEN /\ channels' = [channels EXCEPT ![loop.ch].name = loop.new_name]
             /\ channel_last_update' = Put(channel_last_update, loop.ch, loop.nowc)
             /\ ren' = [ren EXCEPT ![loop.ch].last_ok = loop.nowc,
                                    ![loop.ch].issued = loop.nowc]
             /\ Advance(HerePlace + 1, server_map, cyc, EditEnded, token)
             /\ UNCHANGED <<channel_map, channel_order, categories, ens>>
        ELSE /\ ren' = [ren EXCEPT ![loop.ch].issued = loop.nowc]
             /\ Advance(HerePlace + 1, server_map,
                        [cyc EXCEPT !.failed = @ \cup {loop.idx}], EditEnded, token)
             /\ UNCHANGED <<discordVars, channel_last_update>>
    /\ UNCHANGED <<now, bearer_token, username, token, closed, confVars, mapVars, last, login_http, cmd>>

\* CraftyClient.close(), lines 51-54, called while no exchange is in flight:
\* the aiohttp session is closed and dropped (session() makes a new one for
\* the next request, lines 46-49); no other attribute is assigned
Close ==
    /\ ~closed
    /\ pc.main # "start"
    /\ \A t \in Tasks : call[t].stage = "idle"
    /\ closed' = TRUE
    /\ UNCHANGED <<now, bearer_token, username, token, confVars, discordVars,
                   renameVars, mapVars, pc, call, last, login_http, loop, cyc, cmd>>

\* time passes
Tick ==
    /\ now + 5 <= CHANNEL_COOLDOWN + 5 + 5 * MaxTicks
    /\ now' = now + 5
    /\ UNCHANGED <<bearer_token, username, token, closed, confVars, discordVars, renameVars, mapVars,
                   pc, call, last, login_http, loop, cyc, cmd>>

-----------------------------------------------------------------------------
(* Slash commands *)

\* the server argument of a command: a configured name or another word
ServerArgs == {"survival", "lobby"}

Invocation(user, name, server) ==
    [NoCmd EXCEPT !.user = user, !.name = name]

\* the action name start / stop / restart pass to action_server
ActionOf(name) ==
    CASE name = "start" -> "start_server"
      [] name = "stop" -> "stop_server"
      [] name = "restart" -> "restart_server"

\* lines 240-242 (and 253, 266, 279, 294): the caller is refused
Denied(user, name, server) ==
    /\ ~is_authorized(user, cfg)
    /\ cmd' = [Invocation(user, name, server) EXCEPT !.reply = "Unauthorized",
                                                      !.ephemeral = TRUE]
    /\ UNCHANGED <<confVars, mapVars, pc, call>>

\* start, stop, restart (lines 239-274) and status (lines 278-290) up to the
\* API call
ServerCommand ==
    /\ pc.cmd = "idle"
    /\ \E user \in Callers, name \in {"start", "stop", "restart", "status"},
          server \in ServerArgs :
        \/ Denied(user, name, server)
        \/ /\ is_authorized(user, cfg)
           /\ IF ~Mapped(server_map, server)
              THEN /\ cmd' = [Invocation(user, name, server) EXCEPT
                                 !.reply = "Unknown server", !.ephemeral = TRUE]
                   /\ UNCHANGED <<pc, call>>
              ELSE /\ cmd' = [Invocation(user, name, server) EXCEPT !.http = 1,
                                                                      !.server = server]
                   /\ pc' = [pc EXCEPT !.cmd = IF name = "status" THEN "cmd_public"
                                               ELSE "cmd_action"]
                   /\ call' = [call EXCEPT !.cmd =
                                 IF name = "status"
                                 THEN NewCall("public", server_map[server], token)
                                 ELSE [NewCall("action", server_map[server], token)
                                       EXCEPT !.action = ActionOf(name)]]
           /\ UNCHANGED <<confVars, mapVars>>
    /\ last' = Forget("cmd")
    /\ UNCHANGED <<now, bearer_token, username, token, closed, discordVars, renameVars, login_http,
                   loop, cyc>>

\* reload_config lines 293-302, up to the get_servers call of refresh_server_map;
\* files: the documents config.yaml may hold by then
ReloadConfigOf(files) ==
    /\ pc.cmd = "idle"
    /\ \E user \in Callers :
        \/ Denied(user, "reload-config", "")
        \/ /\ is_authorized(user, cfg)
           /\ \E file \in files :
                /\ cfg' = load_config(file)
                /\ SERVERS_CFG' = load_config(file).servers
                /\ update_interval' = load_config(file).update_interval
           /\ UNCHANGED guilds
           /\ cmd' = [Invocation(user, "reload-config", "") EXCEPT !.http = 1]
           /\ pc' = [pc EXCEPT !.cmd = "cmd_reload"]
           /\ call' = [call EXCEPT !.cmd = NewCall("servers", "", token)]
           /\ UNCHANGED mapVars
    /\ last' = Forget("cmd")
    /\ UNCHANGED <<now, bearer_token, username, token, closed, discordVars, renameVars, login_http,
                   loop, cyc>>

ReloadConfig == ReloadConfigOf(ConfigFiles)

\* the same, the document being the one with two servers or the one with one
ReloadConfigMix == ReloadConfigOf({FileA, FileOne})

\* the same, the document being unchanged
ReloadConfigSub == ReloadConfigOf({FileSub})

-----------------------------------------------------------------------------

\* the whole program
Next ==
    \/ OnReady
    \/ OnReadyAgain
    \/ OnGuildJoin
    \/ GuildRemoved
    \/ CycleStart
    \/ EditRespond
    \/ Tick
    \/ ServerCommand
    \/ ReloadConfig
    \/ Close
    \/ \E t \in Tasks : HttpRespond(t)
    \/ \E t \in Tasks : LoginRespond(t)
    \/ \E t \in Tasks : DiscordRespond(t)

Init == \E bearer \in {None, "tokS"} : InitWith(FileA, bearer, <<"g1", "g2">>)

Spec == Init /\ [][Next]_vars

\* the main task alone: on_ready, then the update_task loop, no command served
NextLoop ==
    \/ OnReady
    \/ CycleStart
    \/ EditRespond
    \/ Tick
    \/ HttpRespond("main")
    \/ LoginRespondKept
    \/ DiscordRespond("main")

\* one guild and one server, to follow one channel through many cycles
InitOne == \E bearer \in {None, "tokS"} : InitWith(FileOne, bearer, <<"g1">>)

SpecLoop == InitOne /\ [][NextLoop]_vars

\* two guilds and two servers within one polling period
NextBindings ==
    \/ OnReady
    \/ GuildRemoved
    \/ CycleStart
    \/ EditRespond
    \/ HttpRespond("main")
    \/ LoginRespondKept
    \/ DiscordRespond("main")

SpecBindings == Init /\ [][NextBindings]_vars

\* on_ready and the commands, before the first run of update_task
NextCmd ==
    \/ OnReady
    \/ ServerCommand
    \/ ReloadConfig
    \/ \E t \in Tasks : HttpRespond(t)
    \/ \E t \in Tasks : LoginRespond(t)
    \/ \E t \in Tasks : DiscordRespond(t)

InitCmd == \E bearer \in {None, "tokS"} : InitAgain(FileA, bearer, <<"g1">>)

SpecCmd == InitCmd /\ [][NextCmd]_vars

\* the main task and a shutdown of the client: close() between two requests
NextClose ==
    \/ OnReady
    \/ CycleStart
    \/ EditRespond
    \/ Tick
    \/ Close
    \/ HttpRespond("main")
    \/ LoginRespondKept
    \/ DiscordRespond("main")

SpecClose == InitOne /\ [][NextClose]_vars

\* two servers of which one is never mapped, through many cycles
InitGap == \E bearer \in {None, "tokS"} : InitWith(FileGap, bearer, <<"g1">>)

SpecFrame == InitGap /\ [][NextLoop]_vars

\* the update_task loop with reloads in between, static token
NextMix ==
    \/ OnReady
    \/ CycleStart
    \/ EditRespond
    \/ ReloadConfigMix
    \/ \E t \in Tasks : HttpRespond(t)
    \/ \E t \in Tasks : DiscordRespond(t)

InitMix == InitAgain(FileA, "tokS", <<"g1">>)

SpecMix == InitMix /\ [][NextMix]_vars

\* two servers of which one's friendly name is part of the other's
NextSub ==
    \/ OnReady
    \/ CycleStart
    \/ EditRespond
    \/ ReloadConfigSub
    \/ \E t \in Tasks : HttpRespond(t)
    \/ \E t \in Tasks : DiscordRespond(t)

InitSub == InitWith(FileSub, "tokS", <<"g1">>)

SpecSub == InitSub /\ [][NextSub]_vars

\* the channel setups alone: on_ready, on_ready again after a reconnect and
\* on_guild_join, update_task not running
NextSetup ==
    \/ OnReady
    \/ OnReadyAgain
    \/ OnGuildJoin
    \/ \E t \in Tasks : HttpRespond(t)
    \/ \E t \in Tasks : DiscordRespond(t)

SpecSetup == InitSub /\ [][NextSetup]_vars

-----------------------------------------------------------------------------
(* Properties *)

\* a request made through _request (not the direct login() of on_ready)
IsRequest(r) == r.op \in {"servers", "stats", "public", "action"}

\* C1 (as stated): with username/password credentials, a request answered 401
\* leads to exactly one re-login and exactly one retry, and the caller gets the
\* retry's result (a value below 400, an API error from 400 on).
C1_ReloginAndRetryAlways ==
    (IsRequest(last) /\ ~Truthy(bearer_token) /\ last.first = 401) =>
        /\ last.logins = 1
        /\ last.attempts = 2
        /\ (last.second \in 200..399 => last.outcome = "ok")
        /\ (last.second >= 400 => last.outcome = "ApiError")

\* C1: with username/password credentials, a request answered 401 on its first
\* attempt makes exactly one login() call; the request is retried, exactly
\* once, only if that login succeeded, and the caller then gets the retry's
\* result (a 401 on the retry is an API error, with no further login); if the
\* login fails the caller gets the login's error and nothing is retried.  A
\* request not answered 401 is attempted once and logs in never.
C1_ReloginOnceRetryIfLoggedIn ==
    /\ \A t \in Tasks : call[t].logins <= 1 /\ call[t].attempts <= 2
    /\ (IsRequest(last) /\ ~Truthy(bearer_token)) =>
        IF last.first = 401
        THEN /\ last.logins = 1
             /\ last.login \in {"ok", "failed"}
             /\ last.login = "ok" =>
                  /\ last.attempts = 2
                  /\ (last.second \in 200..399 => last.outcome = "ok")
                  /\ (last.second >= 400 => last.outcome = "ApiError")
                  /\ (last.second = 0 => last.outcome = "TransportError")
             /\ last.login = "failed" =>
                  /\ last.attempts = 1
                  /\ last.second = 0
                  /\ last.outcome \in {"AuthError", "TransportError", "OtherError"}
        ELSE last.logins = 0 /\ last.attempts = 1 /\ last.login = "none"

\* a request was answered 401, the re-login succeeded and the retry was
\* answered 401 again
C1_Witness ==
    /\ IsRequest(last) /\ ~Truthy(bearer_token)
    /\ last.first = 401 /\ last.login = "ok"
    /\ last.second = 401 /\ last.outcome = "ApiError"

\* C2: with a static bearer token no HTTP login exchange ever happens, login()
\* hands back the static token, and a request answered 401 is not retried: it
\* is attempted once and ends as an API error.
C2_StaticTokenNeverLogsIn ==
    Truthy(bearer_token) =>
        /\ ~login_http
        /\ \A t \in Tasks : /\ call[t].stage # "login"
                            /\ call[t].logins = 0
                            /\ call[t].attempts <= 1
        /\ pc.main # "start" => token = bearer_token
        /\ (IsRequest(last) /\ last.first = 401) =>
              /\ last.outcome = "ApiError"
              /\ last.attempts = 1
              /\ last.logins = 0

\* with a static token, a request was answered 401
C2_Witness ==
    /\ Truthy(bearer_token)
    /\ token = bearer_token
    /\ IsRequest(last) /\ last.first = 401 /\ last.outcome = "ApiError"

\* C3 (as stated): a rename of a channel is never issued less than
\* CHANNEL_COOLDOWN after the previous rename issued for that channel, whether
\* that one succeeded or failed.
C3_NoIssueWithinCooldownOfAnyIssue ==
    pc.main = "cycle_edit" =>
        \/ ren[loop.ch].issued = 0
        \/ loop.nowc - ren[loop.ch].issued >= CHANNEL_COOLDOWN

\* C3: a rename of a channel is never issued less than CHANNEL_COOLDOWN after
\* the channel's last successful rename, however many cycles run in between
\* (a failed attempt starts no cooldown).
C3_NoIssueWithinCooldownOfSuccess ==
    pc.main = "cycle_edit" =>
        \/ ren[loop.ch].last_ok = 0
        \/ loop.nowc - ren[loop.ch].last_ok >= CHANNEL_COOLDOWN

\* a channel renamed before is being renamed again, after a cycle in which the
\* cooldown blocked the rename
C3_Witness ==
    /\ pc.main = "cycle_edit"
    /\ ren[loop.ch].last_ok > 0
    /\ loop.dec.deferred

\* C5 (as stated): a cycle whose refresh failed with an AuthError, ApiError or
\* TransportError leaves the loop scheduled.
C5_LoopSurvivesRemoteFailure ==
    (cyc.refresh = "failed" /\ cyc.err \in {"AuthError", "ApiError", "TransportError"}) =>
        /\ loop.state = "running"
        /\ pc.main # "dead"

\* the loop has ended on an API error of the refresh, with a channel bound
C5_Witness ==
    /\ pc.main = "dead"
    /\ cyc.err = "ApiError"
    /\ AllBindings # <<>>

\* C6: in a cycle whose refresh_server_map has not returned, or has failed, no
\* stats are fetched, no binding is visited, no rename is issued and no
\* last-rename timestamp differs from what it was when the cycle began.
C6_FailedRefreshSkipsCycle ==
    cyc.refresh \in {"pending", "failed"} =>
        /\ cyc.visited = {} /\ cyc.fetched = {} /\ cyc.edits = {}
        /\ pc.main \notin {"cycle_stats", "cycle_edit"}
        /\ call.main.op # "stats"
        /\ channel_last_update = cyc.lu0

\* the refresh of a cycle failed while a channel was bound and had been
\* renamed in an earlier cycle
C6_Witness ==
    /\ cyc.refresh = "failed"
    /\ AllBindings # <<>>
    /\ cyc.lu0 # EmptyDict

\* C10: when the name wanted differs and the cooldown blocks the rename, no
\* rename of the channel is issued in that cycle; whenever the name wanted
\* differs and at least CHANNEL_COOLDOWN has elapsed since the channel's last
\* successful rename, the rename is issued.
C10_DeferredRenameIssued ==
    LET d == loop.dec
    IN  /\ d.act = "cooldown" => (d.ch \notin cyc.edits /\ pc.main # "cycle_edit")
        /\ (d.act \in {"cooldown", "edit"} /\ d.at - d.since >= CHANNEL_COOLDOWN)
              => d.act = "edit"

\* a rename the cooldown had blocked in the cycle before is issued, exactly
\* CHANNEL_COOLDOWN after the channel's last successful rename
C10_Witness ==
    /\ loop.dec.act = "edit"
    /\ loop.dec.deferred
    /\ loop.dec.since > 0
    /\ loop.dec.at - loop.dec.since = CHANNEL_COOLDOWN

\* C7: a run of update_task whose refresh succeeded ends only after every
\* binding has been passed and the stats of every mapped binding of every
\* guild the bot is still in have been requested (and of no unmapped one),
\* whatever stats fetches and renames failed on the way.
C7_EveryBindingProcessed ==
    (cyc.refresh = "ok" /\ pc.main \in {"sleep", "dead"}) =>
        LET mapped == {j \in 1..Len(AllBindings) : Mapped(server_map, AllBindings[j][2])}
            known == {j \in 1..Len(AllBindings) : AllBindings[j][1] \in SeqToSet(guilds)}
        IN  /\ cyc.done
            /\ pc.main = "sleep"
            /\ cyc.visited = 1..Len(AllBindings)
            /\ mapped \cap known \subseteq cyc.fetched
            /\ cyc.fetched \subseteq mapped
            /\ cyc.failed \subseteq cyc.fetched

\* a run over four bindings has ended in which the first binding's stats fetch
\* or rename failed, another binding failed too, and the last was processed
C7_Witness ==
    /\ cyc.done
    /\ Len(AllBindings) = 4
    /\ 1 \in cyc.failed
    /\ Cardinality(cyc.failed) >= 2
    /\ cyc.fetched = 1..4
    /\ cyc.edits # {}

\* C4: when refresh_server_map raises (get_servers raised, or the list could
\* not be indexed) server_map is what it was before the call, and a
\* reload-config that called it ends with that error instead of its reply.
C4_FailedRefreshKeepsMap ==
    rf.result \notin {"none", "ok"} =>
        /\ server_map = rf.before
        /\ (rf.by = "cmd" /\ pc.cmd = "idle" /\ cmd.name = "reload-config" /\ cmd.http > 0)
              => cmd.reply = rf.result

\* a reload-config found a list that could not be indexed while the map was
\* populated
C4_Witness ==
    /\ rf.by = "cmd"
    /\ rf.result = "OtherError"
    /\ rf.before # EmptyDict
    /\ cmd.reply = "OtherError"

\* the caller is in the permitted id set or has a role in the permitted
\* role-name set of configuration c
Permitted(user, c) ==
    \/ \E k \in 1..Len(c.allowed_user_ids) : Str(c.allowed_user_ids[k]) = ToString(user.id)
    \/ user.roles \cap SeqToSet(c.allowed_role_names) # {}

\* C8: an invocation by a caller who is not permitted under the configuration
\* in force is answered "Unauthorized", to the caller only; no request to the
\* Crafty API is sent for it and the configuration is not reloaded.
C8_DeniedNoApiCall ==
    [][ (pc.cmd = "idle" /\ cmd' # cmd /\ ~Permitted(cmd'.user, cfg)) =>
            /\ cmd'.reply = "Unauthorized"
            /\ cmd'.ephemeral
            /\ cmd'.http = 0
            /\ pc'.cmd = "idle"
            /\ call' = call
            /\ cfg' = cfg /\ SERVERS_CFG' = SERVERS_CFG ]_vars

\* a caller whose only role is "admin" was refused a restart while the
\* permitted role is "Admin" and the server named is known
C8_Witness ==
    /\ cmd.name = "restart"
    /\ cmd.user.roles = {"admin"}
    /\ cmd.reply = "Unauthorized" /\ cmd.ephemeral /\ cmd.http = 0
    /\ cfg.allowed_role_names = <<"Admin">>
    /\ Mapped(server_map, "survival")

\* C9: after refresh_server_map returned, the keys of server_map are the
\* configured friendly names, and each value is the identifier (as text) of a
\* listed server whose name is the configured remote name when there is one,
\* and the configured remote name itself otherwise.
C9_MapAfterRefresh ==
    rf.result = "ok" =>
        /\ DOMAIN server_map = {p[1] : p \in SeqToSet(rf.scfg)}
        /\ \A p \in SeqToSet(rf.scfg) :
              LET hits == {i \in 1..Len(rf.servers) : rf.servers[i].server_name = p[2]}
              IN  IF hits # {}
                  THEN \E i \in hits : server_map[p[1]] = Str(rf.servers[i].server_id)
                  ELSE server_map[p[1]] = p[2]

\* a refresh found "SMP" listed and "Build" not listed
C9_Witness ==
    /\ rf.result = "ok"
    /\ rf.servers = <<ServerSMP, ServerSMPb>>
    /\ server_map["survival"] = "43"
    /\ server_map["creative"] = "Build"

\* a reload-config has just completed: its reply is out and no later command
\* has been invoked
ReloadCompleted ==
    /\ pc.cmd = "idle"
    /\ cmd.name = "reload-config"
    /\ cmd.reply = "Config reloaded"

\* C11 (as stated): once reload-config has completed, the configuration read
\* is the one in force everywhere: the name mappings and the authorization
\* lists, the interval of the update_task loop, and the credentials of the
\* Crafty client.
C11_ReloadReplacesAllSettings ==
    ReloadCompleted =>
        /\ SERVERS_CFG = cfg.servers
        /\ update_interval = cfg.update_interval
        /\ loop.seconds = cfg.update_interval
        /\ username = cfg.crafty.username

\* a reload-config completed on a document with another interval and other
\* credentials; the loop and the client still have those of the start
C11_Witness ==
    /\ ReloadCompleted
    /\ cfg.allowed_user_ids = <<PyStr("1002")>>
    /\ update_interval = 10 /\ loop.seconds = 5
    /\ cfg.crafty.username = "bob" /\ username = "alice"

\* C12 (as stated): once close() has been called, and until a login ends
\* well, the client holds no token and no request is sent with one.
C12_CloseClearsToken ==
    closed =>
        /\ ~Truthy(token)
        /\ \A t \in Tasks : call[t].sent = None

\* after close() a request of update_task is in flight with the token of the
\* session before
C12_Witness ==
    /\ closed
    /\ ~Truthy(bearer_token)
    /\ call.main.op = "servers"
    /\ call.main.stage = "first"
    /\ Truthy(call.main.sent)

\* the token the three places of a login body hold, in the order nested
\* data.token, top-level token, top-level data; None when none holds one
ClaimedToken(js) ==
    IF js.data.kind = "dict" /\ Truthy(js.data.token) THEN js.data.token
    ELSE IF Truthy(js.token) THEN js.token
    ELSE IF js.data.kind = "str" /\ Truthy(js.data.str) THEN js.data.str
    ELSE None

\* C13 (as stated): a login() answered with a status below 400 ends well with
\* the token found in data.token, token or data, in this order, and the client
\* holds it; it ends in an AuthError when the status is 400 or more or when
\* none of the three holds a token, and in no other error.
C13_LoginTokenOrAuthError ==
    (last.op = "login" /\ last.kept /\ last.lstatus > 0) =>
        IF last.lstatus >= 400 THEN last.outcome = "AuthError"
        ELSE IF Truthy(ClaimedToken(last.body))
        THEN last.outcome = "ok" /\ token = ClaimedToken(last.body)
        ELSE last.outcome = "AuthError"

\* a login() was answered 200 with a body whose data is the token string, and
\* ended in an error that is not an AuthError, no token held
C13_Witness ==
    /\ last.op = "login" /\ last.kept
    /\ last.lstatus = 200
    /\ last.body = LoginBody("str", None, FALSE, "t1", None)
    /\ last.outcome = "OtherError"
    /\ token = None

\* the maps one refresh_server_map call can build: one per configuration
\* document and server list that can be indexed
Generations ==
    {NewMap(file.servers, IdByName(servers, EmptyDict).d, EmptyDict) :
        file \in AllFiles, servers \in {x \in ServerLists : ~RefreshRaises(x)}}

\* C14 (as stated): no reader sees entries of two generations of server_map:
\* the ids that one run of update_task read from the map, over all its
\* suspensions, are all entries of one and the same generation.
C14_CycleReadsOneGeneration ==
    \E m \in Generations \cup {EmptyDict} :
        \A r \in cyc.reads : Get(m, r.friendly, None) = r.sid

\* C14: server_map is replaced by one assignment: at every instant it is
\* empty or wholly the map built by one refresh, so that a read made without
\* suspension (the lookup of a command handler, one lookup of update_task)
\* yields an entry of one generation.  A run of update_task looks the map up
\* anew for each binding, after suspensions, and can so use ids of two
\* generations when a reload completes in between.
C14_MapIsOneGeneration ==
    /\ server_map \in Generations \cup {EmptyDict}
    /\ \A r \in cyc.reads : \E m \in Generations : Get(m, r.friendly, None) = r.sid

\* a run of update_task has ended that read the id of survival from the map
\* of one refresh and, a reload having completed while it awaited the stats,
\* the id of creative from the map of another
C14_Witness ==
    /\ cyc.done
    /\ cyc.reads = {[friendly |-> "survival", sid |-> "42"],
                    [friendly |-> "creative", sid |-> "Build"]}
    /\ rf.by = "cmd" /\ rf.result = "ok"

\* C15 (as stated): a failed login or a failed first refresh at startup does
\* not keep the loop from being started, and as long as no token is held or
\* the map is empty the loop stays scheduled, so that a later cycle can heal.
C15_StartupFailureHeals ==
    /\ pc.main \notin {"start", "ready_login", "ready_refresh", "ens_category",
                        "ens_channel", "ready_sync"} => loop.state # "unstarted"
    /\ (~Truthy(token) \/ server_map = EmptyDict) => loop.state \in {"unstarted", "running"}

\* the login and the refresh of on_ready failed, and the loop has ended in its
\* first run on a rejected re-login, no token held and the map empty
C15_Witness ==
    /\ pc.main = "dead"
    /\ loop.state = "failed"
    /\ token = None
    /\ server_map = EmptyDict
    /\ cyc.err = "AuthError"

\* C16 (as stated): a status command for a mapped friendly name calls stats
\* for the id the map holds for it.
C16_StatusCallsStats ==
    (cmd.name = "status" /\ call.cmd.stage # "idle") =>
        /\ call.cmd.op = "stats"
        /\ call.cmd.arg = server_map[cmd.server]

\* C16: a status command of an authorized caller for a mapped friendly name
\* calls get_public (GET /api/v2/servers/<id>/public, not .../stats) for
\* exactly the id server_map holds for the name when the command is invoked,
\* and, when the call returns, replies with the running, online and max
\* fields of the data returned, unchanged.
C16_StatusCallsPublic ==
    /\ [][(pc.cmd = "idle" /\ cmd'.name = "status" /\ pc'.cmd # "idle") =>
            /\ call'.cmd.op = "public"
            /\ call'.cmd.arg = server_map[cmd'.server]
            /\ call'.cmd.attempts = 1]_vars
    /\ []((cmd.name = "status" /\ call.cmd.stage # "idle") => call.cmd.op = "public")
    /\ []((pc.cmd = "idle" /\ cmd.name = "status" /\ last.task = "cmd"
            /\ last.outcome = "ok") =>
            /\ cmd.reply = "Status"
            /\ last.op = "public"
            /\ cmd.data = last.body)

\* a status command for survival has been answered with the data of the
\* response: running, 3 of 20 players
C16_Witness ==
    /\ pc.cmd = "idle"
    /\ cmd.name = "status" /\ cmd.server = "survival"
    /\ cmd.reply = "Status"
    /\ last.task = "cmd" /\ last.op = "public" /\ last.outcome = "ok"
    /\ cmd.data = [running |-> "true", online |-> 3, max |-> 20]

\* C17: channel_last_update changes only on the step on which ch.edit of a
\* channel returns successfully, and then only the entry of that channel
\* changes, to the time read before the rename; a name already as desired, a
\* cooldown that has not elapsed, an unmapped server, a failed get_stats and a
\* failed rename leave every entry as it was.
C17_TimestampOnlyOnSuccessfulRename ==
    [][channel_last_update' # channel_last_update =>
         /\ pc.main = "cycle_edit"
         /\ channels'[loop.ch].name = loop.new_name
         /\ channels[loop.ch].name # loop.new_name
         /\ channel_last_update' = Put(channel_last_update, loop.ch, loop.nowc)
         /\ \A c \in DOMAIN channel_last_update \ {loop.ch} :
               channel_last_update'[c] = channel_last_update[c]]_vars

\* a run of update_task has ended that skipped the unmapped server and whose
\* rename of the other channel failed, the timestamp of an earlier rename
\* being what it was when the run began
C17_Witness ==
    /\ cyc.done
    /\ 1 \in cyc.visited \ cyc.fetched
    /\ cyc.edits = {2} /\ cyc.failed = {2}
    /\ ren[2].last_ok > 0
    /\ ren[2].issued > ren[2].last_ok
    /\ channel_last_update = Put(EmptyDict, 2, ren[2].last_ok)

\* C18: with requests of both tasks in flight, each answered 401 under
\* username/password credentials, every request makes at most one login()
\* call and at most two HTTP attempts, and its retry is sent on the step on
\* which its own login() returns, with the token that login has just stored.
C18_ConcurrentReloginBounded ==
    /\ [](\A t \in Tasks : call[t].logins <= 1 /\ call[t].attempts <= 2)
    /\ [][\A t \in Tasks :
            (call[t].stage # "retry" /\ call'[t].stage = "retry") =>
                /\ call[t].stage = "login"
                /\ call[t].first = 401
                /\ Truthy(token')
                /\ call'[t].sent = token'
                /\ \E js \in LoginBodies : ExtractToken(js).token = token']_vars

\* both tasks are retrying a request that was answered 401, each after one
\* login() of its own, the one with the token t1 and the other with t2
C18_Witness ==
    /\ ~Truthy(bearer_token)
    /\ \A t \in {"main", "cmd"} :
          /\ call[t].stage = "retry"
          /\ call[t].first = 401
          /\ call[t].logins = 1
          /\ call[t].attempts = 2
    /\ call.main.sent = "t1"
    /\ call.cmd.sent = "t2"
    /\ token = "t2"

\* every configured friendly name is bound, in every guild, to an existing
\* channel that carries a placeholder, Online or Offline name
AllBound ==
    \A i \in 1..Len(guilds) : \A f \in SeqToSet(Keys(SERVERS_CFG)) :
        /\ guilds[i] \in DOMAIN channel_map
        /\ f \in DOMAIN channel_map[guilds[i]]
        /\ channel_map[guilds[i]][f] \in DOMAIN channels
        /\ channels[channel_map[guilds[i]][f]].name \in ChannelNames

\* no channel setup is suspended in a Discord call
SetupAtRest == \A t \in Tasks : pc[t] \notin {"ens_category", "ens_channel"}

\* C19 (as stated): once every configured friendly name is bound to an
\* existing channel and no channel setup is under way, running the channel
\* setup of every guild again with the configuration in force creates no
\* category and no channel and changes no binding.
C19_SetupIdempotent ==
    (AllBound /\ SetupAtRest) =>
        LET st == EnsureGuilds(channel_map, channel_order, channels, categories,
                               guilds, Conf)
        IN  /\ st.at = "done"
            /\ st.channel_map = channel_map

\* reload-config, the document unchanged, has run the setup again after the
\* reconciler renamed channel 1: a second channel exists and pvp2 is bound to
\* it, having been bound to channel 1 before
C19_Witness ==
    /\ cfg = load_config(FileSub)
    /\ rf.by = "cmd" /\ rf.result = "ok"
    /\ cmd.reply = "Config reloaded"
    /\ DOMAIN channels = {1, 2}
    /\ channels[1].name \in {OnlineName("pvp"), OfflineName("pvp")}
    /\ channel_map = Put(EmptyDict, "g1", [pvp2 |-> 2, pvp |-> 1])

\* C20 (as stated): within a guild, two different friendly names are never
\* bound to the same channel.
C20_DistinctNamesDistinctChannels ==
    \A g \in DOMAIN channel_map : \A f1, f2 \in DOMAIN channel_map[g] :
        f1 # f2 => channel_map[g][f1] # channel_map[g][f2]

\* on_ready in g1 and on_guild_join in g3 have each created one channel, for
\* pvp2, and bound pvp2 and pvp to it
C20_Witness ==
    /\ guilds = <<"g1", "g3">>
    /\ \A t \in Tasks : pc[t] \in {"idle", "sleep"}
    /\ DOMAIN channels = {1, 2}
    /\ channels[1].name = PlaceholderName("pvp2")
    /\ channels[2].name = PlaceholderName("pvp2")
    /\ channel_map = [g1 |-> [pvp2 |-> 1, pvp |-> 1], g3 |-> [pvp2 |-> 2, pvp |-> 2]]

====
